---- MODULE Spec2Model ----
(***************************************************************************)
(* Model of go-orphan-tracker (cmd/root.go): the header/transaction store, *)
(* Header.CreateOrUpdate, handleHeader and the main loop of rootCmd.Run    *)
(* (side-head, canonical-head and trailer cases), the shutdown and the     *)
(* raw_sql path of the HTTP API.                                           *)
(*                                                                         *)
(* The loop goroutine runs next to the HTTP handlers, which read the store *)
(* and the status head at any moment, so an iteration of the loop is a     *)
(* sequence of steps: one step per node call and per store statement, in   *)
(* the order of the code.  pc holds what the current iteration still has   *)
(* to do; the loop is at its select when pc is empty.  Every call that     *)
(* returns an error to the code may fail when it is made.  The shutdown    *)
(* point of the main goroutine is a sequence of steps too, one per         *)
(* statement.  The node is an                                              *)
(* external collaborator: BlockByHash answers from a fixed block database  *)
(* (Chain), BlockByNumber answers with any block of the requested height   *)
(* (the node's canonical view changes with reorgs).  The store is a file   *)
(* that outlives the process: Init is the first run on a fresh file, and   *)
(* Restart starts the program again on the file an earlier run left.       *)
(* Row timestamps (created_at, updated_at) are not modelled.               *)
(***************************************************************************)
EXTENDS Integers, Sequences, FiniteSets, TLC

VARIABLES db, statusLatestHead, sideHeadCh, headCh, trailerCh, loop, pc,
          delivered, last, quitCh, sideSub, headSub, arrival, teardown,
          served, walk, runs

vars == <<db, statusLatestHead, sideHeadCh, headCh, trailerCh, loop, pc,
          delivered, last, quitCh, sideSub, headSub, arrival, teardown,
          served, walk, runs>>

\* ------------------------------------------------------------------ bounds
\* Number of headers and errors the two subscriptions deliver, over all runs.
MaxEvents == 2
\* Capacity of the buffered channels sideHeadCh and headCh (10_000 in the
\* code, scaled down).
ChanCap == 2
\* Capacity of the buffered channel trailerCh (10_000 in the code, scaled
\* down).
TrailerCap == 2
\* Consecutive identical CreateOrUpdate calls that are told apart.
MaxRepeat == 2
\* Nested handleHeader calls that are followed (the code has no limit).
MaxDepth == 5
\* Number of times the program is started on the same database file.
MaxRuns == 2

\* --------------------------------------------------------------- constants
trailHeight == 10

\* ------------------------------------------------------- the node's blocks
\* The blocks the node can serve, keyed by hash.  A* is the main chain,
\* B*/C* are competing blocks.  A12 cites the uncles B11 and C11, and the
\* uncle B11 itself cites B10.  B12 is a competing block on A11 that cites
\* B10 and B11, that is, an uncle (B10) that another of its uncles (B11)
\* cites too.  A11 and B11 carry the same transactions.
\* The sender of t3 (in B21) cannot be recovered.  C21 is a third block at
\* height 21 that is never announced: the node only reports it as canonical.
Chain ==
  [A9  |-> [number |-> 9,  parent |-> "A8",  uncles |-> <<>>, txs |-> <<>>],
   A10 |-> [number |-> 10, parent |-> "A9",  uncles |-> <<>>, txs |-> <<>>],
   B10 |-> [number |-> 10, parent |-> "A9",  uncles |-> <<>>, txs |-> <<"t1">>],
   A11 |-> [number |-> 11, parent |-> "A10", uncles |-> <<>>, txs |-> <<"t1", "t2">>],
   B11 |-> [number |-> 11, parent |-> "A10", uncles |-> <<"B10">>, txs |-> <<"t1", "t2">>],
   C11 |-> [number |-> 11, parent |-> "A10", uncles |-> <<>>, txs |-> <<>>],
   A12 |-> [number |-> 12, parent |-> "A11", uncles |-> <<"B11", "C11">>, txs |-> <<>>],
   B12 |-> [number |-> 12, parent |-> "A11", uncles |-> <<"B10", "B11">>, txs |-> <<>>],
   A20 |-> [number |-> 20, parent |-> "A19", uncles |-> <<>>, txs |-> <<>>],
   A21 |-> [number |-> 21, parent |-> "A20", uncles |-> <<>>, txs |-> <<"t2">>],
   B21 |-> [number |-> 21, parent |-> "A20", uncles |-> <<>>, txs |-> <<"t3">>],
   C21 |-> [number |-> 21, parent |-> "A20", uncles |-> <<>>, txs |-> <<>>]]

Blocks == DOMAIN Chain

\* The heads the node may report at startup (HeaderByNumber(nil)).
StartHeads == {"A11", "A20"}

\* The headers the node announces on the new-head subscription and on the
\* side-head subscription.
HeadEvents == {"A9", "A11", "A12", "A21", "B21"}

\* The heads whose blocks cite uncles.
UncleHeadEvents == {"A12", "B12"}

SideEvents == {"B11", "C11", "A21", "B21"}

\* tx.AsMessage succeeds iff the sender can be recovered from the signature.
SenderOf(t) == IF t = "t3" THEN "" ELSE "from_" \o t

Range(s) == {s[i] : i \in 1..Len(s)}

\* types.EmptyUncleHash: the digest of an empty uncle list.  The digest of
\* an uncle list is modelled by the list itself (it is injective).
EmptyUncleHash == <<>>

\* The wire header (types.Header) of block b as the node sends it.
WireHeader(b) ==
  [hash |-> b, parentHash |-> Chain[b].parent,
   uncleHash |-> Chain[b].uncles, number |-> Chain[b].number]

\* client.BlockByHash: the block with that hash.
BlockByHash(hash) == Chain[hash]

\* client.BlockByNumber: the blocks the node may report as canonical at a
\* height (it reports one of them; none means an error).
BlockByNumber(n) == {b \in Blocks : Chain[b].number = n}

\* ----------------------------------------------------------------- uint64
\* uint64 values are kept as four 16-bit limbs, most significant first, so
\* that the unsigned subtraction wraps as it does in Go.
Limb == 2^16

ToU64(n) == <<0, 0, n \div Limb, n % Limb>>

\* a - b on uint64, for a, b below 2^31.
U64Sub(a, b) ==
  IF a >= b THEN ToU64(a - b)
  ELSE LET d == b - a - 1
       IN <<Limb - 1, Limb - 1, (Limb - 1) - (d \div Limb), (Limb - 1) - (d % Limb)>>

\* ------------------------------------------------------ subscription errors
\* Error texts are sequences of characters.
ConnectionReset == <<"r", "e", "a", "d", ":", " ", "c", "o", "n", "n", "e", "c", "t", "i", "o", "n", " ", "r", "e", "s", "e", "t">>

ConnectionRefused == <<"C", "o", "n", "n", "e", "c", "t", "i", "o", "n", " ", "r", "e", "f", "u", "s", "e", "d">>

EOF == <<"E", "O", "F">>

\* The texts a subscription's Err() channel may deliver, and the results of
\* a re-subscription call (NoError: it succeeded).
NoError == <<>>

ErrTexts == {ConnectionReset, ConnectionRefused, EOF}

UpperCase == <<"A", "B", "C", "D", "E", "F", "G", "H", "I", "J", "K", "L", "M", "N", "O", "P", "Q", "R", "S", "T", "U", "V", "W", "X", "Y", "Z">>

LowerCase == <<"a", "b", "c", "d", "e", "f", "g", "h", "i", "j", "k", "l", "m", "n", "o", "p", "q", "r", "s", "t", "u", "v", "w", "x", "y", "z">>

\* strings.ToLower, for the letters A to Z.
ToLower(text) ==
  [i \in 1..Len(text) |->
     IF \E k \in 1..Len(UpperCase) : UpperCase[k] = text[i]
     THEN LowerCase[CHOOSE k \in 1..Len(UpperCase) : UpperCase[k] = text[i]]
     ELSE text[i]]

\* strings.Contains.
Contains(text, substr) ==
  \E i \in 0..(Len(text) - Len(substr)) :
    SubSeq(text, i + 1, i + Len(substr)) = substr

\* strings.Contains(strings.ToLower(err.Error()), "connection")
\* (variants: without ToLower; always; never)
IsConnectionErrorCaseSensitive(text) == Contains(text, <<"c", "o", "n", "n", "e", "c", "t", "i", "o", "n">>)

IsConnectionErrorAlways(text) == TRUE

IsConnectionErrorNever(text) == FALSE

IsConnectionError(text) == Contains(ToLower(text), <<"c", "o", "n", "n", "e", "c", "t", "i", "o", "n">>)

\* -------------------------------------------------------------- normalizers
appHeader(header) ==
  [Hash |-> header.hash, ParentHash |-> header.parentHash,
   UncleHash |-> header.uncleHash, Number |-> header.number,
   Uncle1 |-> "", Uncle2 |-> "", Orphan |-> FALSE, UncleBy |-> "",
   Error |-> "", Txes |-> <<>>]

appTx(t) ==
  IF SenderOf(t) = "" THEN [tx |-> [Hash |-> "", From |-> ""], err |-> TRUE]
  ELSE [tx |-> [Hash |-> t, From |-> SenderOf(t)], err |-> FALSE]

RECURSIVE blockTxes2AppTxes(_)
blockTxes2AppTxes(blTxes) ==
  IF blTxes = <<>> THEN [txes |-> <<>>, err |-> FALSE]
  ELSE LET r == appTx(Head(blTxes))
       IN IF r.err THEN [txes |-> <<>>, err |-> TRUE]
          ELSE LET rest == blockTxes2AppTxes(Tail(blTxes))
               IN [txes |-> <<r.tx>> \o rest.txes, err |-> rest.err]

\* ------------------------------------------------------------------- store
\* The three tables, each a sequence of rows in insertion order.
EmptyDB == [headers |-> <<>>, txes |-> <<>>, header_txes |-> <<>>]

\* The columns of a headers row (Header without its Txes association).
HeaderRow(h) ==
  [Hash |-> h.Hash, ParentHash |-> h.ParentHash, UncleHash |-> h.UncleHash,
   Number |-> h.Number, Uncle1 |-> h.Uncle1, Uncle2 |-> h.Uncle2,
   Orphan |-> h.Orphan, UncleBy |-> h.UncleBy, Error |-> h.Error]

HasKey(table, key) == \E i \in 1..Len(table) : table[i].Hash = key

\* INSERT INTO headers ... ON CONFLICT (hash) DO UPDATE SET <cols>.
\* (variants: without the ON CONFLICT clause; with ON CONFLICT DO NOTHING;
\* with UpdateAll, every column taken from the new record)
InsertHeaderNoConflictClause(headers, h, cols) == Append(headers, HeaderRow(h))

InsertHeaderDoNothing(headers, h, cols) ==
  IF HasKey(headers, h.Hash) THEN headers ELSE Append(headers, HeaderRow(h))

UpsertHeaderUpdateAll(headers, h, cols) ==
  IF HasKey(headers, h.Hash)
  THEN [i \in 1..Len(headers) |->
          IF headers[i].Hash = h.Hash THEN HeaderRow(h) ELSE headers[i]]
  ELSE Append(headers, HeaderRow(h))

UpsertHeader(headers, h, cols) ==
  IF HasKey(headers, h.Hash)
  THEN [i \in 1..Len(headers) |->
          IF headers[i].Hash = h.Hash
          THEN [headers[i] EXCEPT
                  !.Orphan = IF "orphan" \in Range(cols) THEN h.Orphan ELSE @,
                  !.UncleBy = IF "uncle_by" \in Range(cols) THEN h.UncleBy ELSE @]
          ELSE headers[i]]
  ELSE Append(headers, HeaderRow(h))

\* INSERT INTO txes ... ON CONFLICT DO NOTHING (association save of Create(h)).
\* (variant: a plain INSERT that adds every record)
InsertTxesPlain(txes, new) == txes \o new

RECURSIVE InsertTxesDoNothing(_, _)
InsertTxesDoNothing(txes, new) ==
  IF new = <<>> THEN txes
  ELSE InsertTxesDoNothing(
         IF HasKey(txes, Head(new).Hash) THEN txes ELSE Append(txes, Head(new)),
         Tail(new))

\* INSERT INTO txes ... ON CONFLICT (hash) DO UPDATE SET all columns.
RECURSIVE UpsertTxesUpdateAll(_, _)
UpsertTxesUpdateAll(txes, new) ==
  IF new = <<>> THEN txes
  ELSE UpsertTxesUpdateAll(
         IF HasKey(txes, Head(new).Hash)
         THEN [i \in 1..Len(txes) |->
                 IF txes[i].Hash = Head(new).Hash THEN Head(new) ELSE txes[i]]
         ELSE Append(txes, Head(new)),
         Tail(new))

\* INSERT INTO header_txes ... ON CONFLICT DO NOTHING.
RECURSIVE InsertLinksDoNothing(_, _, _)
InsertLinksDoNothing(links, hash, new) ==
  IF new = <<>> THEN links
  ELSE LET l == [header_hash |-> hash, tx_hash |-> Head(new).Hash]
       IN InsertLinksDoNothing(
            IF \E i \in 1..Len(links) : links[i] = l THEN links ELSE Append(links, l),
            hash, Tail(new))

\* Header.CreateOrUpdate, first statement: Create(h) with the ON CONFLICT
\* clause on headers.hash; gorm saves the Txes association with it (new txes
\* rows and links, existing ones left alone).
CreateHeader(d, h, assignCols) ==
  [headers |-> UpsertHeader(d.headers, h, assignCols),
   txes |-> InsertTxesDoNothing(d.txes, h.Txes),
   header_txes |-> InsertLinksDoNothing(d.header_txes, h.Hash, h.Txes)]

\* Header.CreateOrUpdate, second statement: Create(&h.Txes) with UpdateAll on
\* txes.hash, made when h has transactions.
CreateTxes(d, h) ==
  [d EXCEPT !.txes = UpsertTxesUpdateAll(@, h.Txes),
            !.header_txes = InsertLinksDoNothing(@, h.Hash, h.Txes)]

\* Header.CreateOrUpdate when neither statement fails.
CreateOrUpdate(d, h, assignCols) ==
  IF Len(h.Txes) = 0 THEN CreateHeader(d, h, assignCols)
  ELSE CreateTxes(CreateHeader(d, h, assignCols), h)

\* UPDATE headers SET orphan = true WHERE number = ? AND hash != ?.
\* (variant: a DELETE of the matching rows)
DeleteOthers(d, number, hash) ==
  [d EXCEPT !.headers =
     SelectSeq(@, LAMBDA row : ~(row.Number = number /\ row.Hash # hash))]

DemoteOthers(d, number, hash) ==
  [d EXCEPT !.headers =
     [i \in 1..Len(@) |->
        IF @[i].Number = number /\ @[i].Hash # hash
        THEN [@[i] EXCEPT !.Orphan = TRUE]
        ELSE @[i]]]

\* db.Model(Header{}).Where(...).Update("orphan", true) with its result
\* discarded: when the statement fails nothing is written and the code goes
\* on.  ignored tells that an error was discarded.
Demote(d, number, hash, failed) ==
  IF failed THEN [db |-> d, ignored |-> TRUE]
  ELSE [db |-> DemoteOthers(d, number, hash), ignored |-> FALSE]

\* A store state in which two rows of one height have orphan=false.
Torn(d) ==
  \E i, j \in 1..Len(d.headers) :
    /\ i # j
    /\ d.headers[i].Number = d.headers[j].Number
    /\ ~d.headers[i].Orphan
    /\ ~d.headers[j].Orphan

\* ------------------------------------------------------------ handleHeader
\* What an iteration of the loop still has to do is a sequence of tasks.  A
\* task is a call that can fail or a statement on the store:
\*   "handleHeader"   handleHeader up to its uncle loop: BlockByHash(b) and
\*                    the conversion of the transactions;
\*   "Create"         the first statement of CreateOrUpdate for block b;
\*   "CreateTxes"     the second statement of CreateOrUpdate for block b;
\*   "Update"         the bulk update that ends handleHeader for a canonical b;
\*   "BlockByNumber"  BlockByNumber(n) and what follows it;
\*   "send"           the headCh case from the conflict flag on.
\* orphan and by are the isOrphan and uncleBy arguments of handleHeader.
Task(t, b, orphan, by, n) == [t |-> t, b |-> b, orphan |-> orphan, by |-> by, n |-> n]

\* A call made to the node.
Call(rpc, arg) == [rpc |-> rpc, arg |-> arg]

\* The header record handleHeader(b, isOrphan, uncleBy) hands to
\* CreateOrUpdate: the normalized header with its flags, its transactions
\* and the hashes of its uncles (the second and every later uncle is written
\* to Uncle2).
handleHeaderRecord(b, isOrphan, uncleBy) ==
  [appHeader(WireHeader(b)) EXCEPT
     !.Orphan = isOrphan,
     !.UncleBy = uncleBy,
     !.Txes = blockTxes2AppTxes(BlockByHash(b).txs).txes,
     !.Uncle1 = IF Len(BlockByHash(b).uncles) >= 1 THEN BlockByHash(b).uncles[1] ELSE @,
     !.Uncle2 = IF Len(BlockByHash(b).uncles) >= 2
                THEN BlockByHash(b).uncles[Len(BlockByHash(b).uncles)] ELSE @]

\* assignCols := []string{"orphan"}, plus "uncle_by" for an uncle.
AssignCols(uncleBy) ==
  IF uncleBy # "" THEN <<"orphan", "uncle_by">> ELSE <<"orphan">>

\* The loop over bl.Uncles(): one nested handleHeader call per uncle, each as
\* an orphan cited by b, in order.
\* (variants: a call for the first uncle only; no call at all)
handleUnclesFirstOnly(b) ==
  [i \in 1..(IF Len(BlockByHash(b).uncles) >= 1 THEN 1 ELSE 0) |->
     Task("handleHeader", BlockByHash(b).uncles[i], TRUE, b, 0)]

handleUnclesNamesOnly(b) == <<>>

handleUncles(b) ==
  [i \in 1..Len(BlockByHash(b).uncles) |->
     Task("handleHeader", BlockByHash(b).uncles[i], TRUE, b, 0)]

\* handleHeader after BlockByHash and the conversion succeeded: the uncle
\* loop, then CreateOrUpdate.
handleHeaderBody(k) ==
  handleUncles(k.b) \o <<Task("Create", k.b, k.orphan, k.by, 0)>>

\* What follows a successful first statement of CreateOrUpdate: the second
\* statement if the header has transactions, and, back in handleHeader, the
\* bulk update if the header is canonical.
AfterCreate(k) ==
  (IF Len(handleHeaderRecord(k.b, k.orphan, k.by).Txes) = 0 THEN <<>>
   ELSE <<Task("CreateTxes", k.b, k.orphan, k.by, 0)>>)
    \o (IF k.orphan THEN <<>> ELSE <<Task("Update", k.b, k.orphan, k.by, 0)>>)

\* The store when handleHeader returns because the conversion of the
\* transactions of block b failed: nothing was written.
\* (variant: the header is stored without its transactions first)
handleHeaderTxErrorKeepsHeader(d, b, isOrphan, uncleBy) ==
  CreateHeader(d, [handleHeaderRecord(b, isOrphan, uncleBy) EXCEPT !.Txes = <<>>],
               AssignCols(uncleBy))

handleHeaderTxError(d, b, isOrphan, uncleBy) == d

\* ------------------------------------------- the recursion of handleHeader
\* handleHeader calls itself for every uncle of the block it fetched.  To
\* follow the nesting of these calls, the third specification runs
\* handleHeader call by call and store statement by store statement over
\* the uncle lists a node may return: any
\* assignment of at most two distinct uncles to each of three blocks.  The
\* client does not compare the hash of a returned block with the requested
\* one, so the lists need not form a valid chain.
GraphBlocks == {"G1", "G2", "G3"}

GraphNumber(b) == IF b = "G1" THEN 1 ELSE IF b = "G2" THEN 2 ELSE 3

\* The transactions of the blocks: G1 carries one, G2 and G3 none.
GraphTxs(b) == IF b = "G1" THEN <<"t1">> ELSE <<>>

UncleLists ==
  {<<>>} \cup {<<u>> : u \in GraphBlocks}
         \cup {p \in GraphBlocks \X GraphBlocks : p[1] # p[2]}

UncleGraphs == [GraphBlocks -> UncleLists]

\* Valid chain data: an uncle has a lower number than the block citing it.
WellFormedGraph(g) ==
  \A b \in DOMAIN g : \A k \in 1..Len(g[b]) : GraphNumber(g[b][k]) < GraphNumber(b)

\* walk: the uncle lists of the node, the stack of handleHeader calls in
\* progress (block handled, index of the next uncle of the loop, the
\* isOrphan and uncleBy arguments of the call, and at: the store statement
\* the call makes next once its loop is over, or "return"), whether
\* the outermost call has returned, the deepest nesting it reached, and err:
\* a call has returned an error that its callers are returning in turn.
NoWalk ==
  [uncles |-> <<>>, stack |-> <<>>, returned |-> FALSE, deepest |-> 0,
   err |-> FALSE]

\* for i, uncle := range bl.Uncles(): the header the next nested call gets.
\* (variant: the call gets the header being handled)
NextUncleSelf(g, frame) == frame.block

NextUncle(g, frame) == g[frame.block][frame.i]

\* A handleHeader call that starts.
Frame(b, isOrphan, uncleBy) ==
  [block |-> b, i |-> 1, orphan |-> isOrphan, by |-> uncleBy, at |-> "Create"]

\* The record handleHeader upserts for the block of a call.
GraphRecord(g, frame) ==
  [appHeader([hash |-> frame.block, parentHash |-> "",
              uncleHash |-> g[frame.block],
              number |-> GraphNumber(frame.block)]) EXCEPT
     !.Orphan = frame.orphan,
     !.UncleBy = frame.by,
     !.Txes = blockTxes2AppTxes(GraphTxs(frame.block)).txes,
     !.Uncle1 = IF Len(g[frame.block]) >= 1 THEN g[frame.block][1] ELSE @,
     !.Uncle2 = IF Len(g[frame.block]) >= 2
                THEN g[frame.block][Len(g[frame.block])] ELSE @]

\* -------------------------------------------------------------------- state
\* last: what the current or most recent loop iteration of this run (or
\* CreateOrUpdate call) did.  done tells that the iteration is over, db0 is
\* the store as the iteration found it and prevHead the hash of the status
\* head as a head event found it.  recv is the header of the latest head
\* event received from headCh in this run ("" when none was) and prevRecv,
\* in a head event, the header of the head event received before it.
NoEvent ==
  [n |-> 0, op |-> "none", hdr |-> "", err |-> FALSE, path |-> "",
   conflict |-> FALSE, calls |-> <<>>, canon |-> "", args |-> <<>>,
   ignored |-> FALSE, txerr |-> "",
   text |-> <<>>, subErr |-> <<>>, queued |-> 0, prevHead |-> "",
   recv |-> "", prevRecv |-> "", done |-> TRUE, db0 |-> EmptyDB]

\* The first run, on a database file that does not exist yet.
Init ==
  /\ db = EmptyDB
  /\ statusLatestHead \in {appHeader(WireHeader(b)) : b \in StartHeads}
  /\ sideHeadCh = <<>>
  /\ headCh = <<>>
  /\ trailerCh = <<>>
  /\ loop = "running"
  /\ pc = <<>>
  /\ delivered = 0
  /\ last = NoEvent
  /\ quitCh = <<>>
  /\ sideSub = 1
  /\ headSub = 1
  /\ arrival = <<>>
  /\ teardown = <<>>
  /\ served = ""
  /\ walk = NoWalk
  /\ runs = 1

\* --------------------------------------------------------- the subscriptions
\* The node pushes a new canonical head into headCh.
SubscribeNewHead ==
  /\ loop = "running"
  /\ delivered < MaxEvents
  /\ Len(headCh) < ChanCap
  /\ \E b \in HeadEvents :
       /\ headCh' = Append(headCh, b)
       /\ arrival' = Append(arrival, [ch |-> "head", hdr |-> b])
  /\ delivered' = delivered + 1
  /\ UNCHANGED <<db, statusLatestHead, sideHeadCh, trailerCh, loop, pc, last, quitCh,
                 sideSub, headSub, teardown, served, walk, runs>>

\* The node pushes a new canonical head whose block cites uncles.
SubscribeNewHeadWithUncles ==
  /\ loop = "running"
  /\ delivered < MaxEvents
  /\ Len(headCh) < ChanCap
  /\ \E b \in UncleHeadEvents :
       /\ headCh' = Append(headCh, b)
       /\ arrival' = Append(arrival, [ch |-> "head", hdr |-> b])
  /\ delivered' = delivered + 1
  /\ UNCHANGED <<db, statusLatestHead, sideHeadCh, trailerCh, loop, pc, last, quitCh,
                 sideSub, headSub, teardown, served, walk, runs>>

\* The node pushes a new side head into sideHeadCh.
SubscribeNewSideHead ==
  /\ loop = "running"
  /\ delivered < MaxEvents
  /\ Len(sideHeadCh) < ChanCap
  /\ \E b \in SideEvents :
       /\ sideHeadCh' = Append(sideHeadCh, b)
       /\ arrival' = Append(arrival, [ch |-> "side", hdr |-> b])
  /\ delivered' = delivered + 1
  /\ UNCHANGED <<db, statusLatestHead, headCh, trailerCh, loop, pc, last, quitCh,
                 sideSub, headSub, teardown, served, walk, runs>>

\* ------------------------------------------------------------ the main loop
\* A receive from a buffered channel: the oldest element.
\* (variant: the newest element)
RecvNewest(ch) == [msg |-> ch[Len(ch)], rest |-> SubSeq(ch, 1, Len(ch) - 1)]

Recv(ch) == [msg |-> Head(ch), rest |-> Tail(ch)]

\* arrival lists the pending events of the three queues in the order they
\* were sent; Taken(c) is that list without the oldest event of queue c.
Oldest(c) == CHOOSE k \in 1..Len(arrival) :
               /\ arrival[k].ch = c
               /\ \A j \in 1..(k - 1) : arrival[j].ch # c

Taken(c) == SubSeq(arrival, 1, Oldest(c) - 1) \o SubSeq(arrival, Oldest(c) + 1, Len(arrival))

\* The loop is at its select statement.
AtSelect == loop = "running" /\ pc = <<>>

\* The iteration is at task t.
At(t) == loop = "running" /\ pc # <<>> /\ Head(pc).t = t

\* How a select case without tasks ends: on an error, quitCh <- os.Interrupt
\* and return; otherwise back to the select.
EndIteration(err) ==
  /\ loop' = IF err THEN "stopped" ELSE "running"
  /\ quitCh' = IF err THEN Append(quitCh, "os.Interrupt") ELSE quitCh
  /\ pc' = <<>>

\* A call returned an error: quitCh <- os.Interrupt and return.  ev is the
\* record of the iteration.
Abort(ev) ==
  /\ loop' = "stopped"
  /\ quitCh' = Append(quitCh, "os.Interrupt")
  /\ pc' = <<>>
  /\ last' = [ev EXCEPT !.err = TRUE, !.done = TRUE]

\* The iteration goes on with the tasks rest (back to the select if none).
Continue(ev, rest) ==
  /\ pc' = rest
  /\ last' = [ev EXCEPT !.done = (rest = <<>>)]
  /\ UNCHANGED <<loop, quitCh>>

\* The record of a new iteration.
Event(op, hdr, queued) ==
  [NoEvent EXCEPT !.n = last.n + 1, !.op = op, !.hdr = hdr, !.queued = queued,
                  !.recv = last.recv, !.done = FALSE, !.db0 = db]

\* setupClientSubsctription(sub): a fresh subscription object (numbered by
\* the order of creation) or, when the call returns an error, none (0).
setupClientSubsctription(current, subErr) ==
  IF subErr = NoError THEN current + 1 ELSE 0

\* The common body of the two Err() cases: sub is the subscription that
\* reported text, subErr the result of the re-subscription call if one is
\* made.  Returns the subscription afterwards, whether the loop returns, the
\* node calls made and the branch taken.
SubscriptionError(sub, name, text, subErr) ==
  IF IsConnectionError(text)
  THEN [sub |-> setupClientSubsctription(sub, subErr),
        err |-> subErr # NoError,
        calls |-> <<Call(name, "")>>,
        subErr |-> subErr,
        path |-> IF subErr = NoError THEN "resubscribed" ELSE "resubscribe failed"]
  ELSE [sub |-> sub, err |-> TRUE, calls |-> <<>>, subErr |-> NoError,
        path |-> "fatal"]

\* case err := <-sideSub.Err()
SideSubErr ==
  /\ AtSelect
  /\ delivered < MaxEvents
  /\ \E text \in ErrTexts, subErr \in {NoError} \cup ErrTexts :
       LET r == SubscriptionError(sideSub, "SubscribeNewSideHead", text, subErr)
       IN /\ sideSub' = r.sub
          /\ EndIteration(r.err)
          /\ last' = [Event("sideSubErr", "", 0) EXCEPT
                        !.text = text, !.err = r.err, !.calls = r.calls,
                        !.subErr = r.subErr, !.path = r.path, !.done = TRUE]
  /\ delivered' = delivered + 1
  /\ UNCHANGED <<db, statusLatestHead, sideHeadCh, headCh, trailerCh,
                 headSub, arrival, teardown, served, walk, runs>>

\* case err := <-headSub.Err()
HeadSubErr ==
  /\ AtSelect
  /\ delivered < MaxEvents
  /\ \E text \in ErrTexts, subErr \in {NoError} \cup ErrTexts :
       LET r == SubscriptionError(headSub, "SubscribeNewHead", text, subErr)
       IN /\ headSub' = r.sub
          /\ EndIteration(r.err)
          /\ last' = [Event("headSubErr", "", 0) EXCEPT
                        !.text = text, !.err = r.err, !.calls = r.calls,
                        !.subErr = r.subErr, !.path = r.path, !.done = TRUE]
  /\ delivered' = delivered + 1
  /\ UNCHANGED <<db, statusLatestHead, sideHeadCh, headCh, trailerCh,
                 sideSub, arrival, teardown, served, walk, runs>>

\* case header := <-sideHeadCh: the header is received; it is handled as an
\* orphan, then the canonical block of its height is fetched and handled.
SideHead ==
  /\ AtSelect
  /\ sideHeadCh # <<>>
  /\ sideHeadCh' = Recv(sideHeadCh).rest
  /\ arrival' = Taken("side")
  /\ Continue(Event("side", Recv(sideHeadCh).msg, Len(sideHeadCh)),
              <<Task("handleHeader", Recv(sideHeadCh).msg, TRUE, "", 0),
                Task("BlockByNumber", Recv(sideHeadCh).msg, FALSE, "",
                     Chain[Recv(sideHeadCh).msg].number)>>)
  /\ UNCHANGED <<db, statusLatestHead, headCh, trailerCh, delivered,
                 sideSub, headSub, teardown, served, walk, runs>>

\* The conflict flag of the headCh case.
\* (variant: without the parent hash comparison)
ConflictHeightsOnly(latestHead, status) ==
  \/ latestHead.Number = status.Number /\ latestHead.Hash # status.Hash
  \/ latestHead.Number < status.Number

Conflict(latestHead, status) ==
  \/ latestHead.Number = status.Number /\ latestHead.Hash # status.Hash
  \/ latestHead.Number < status.Number
  \/ latestHead.ParentHash # status.Hash

\* The test that ends the headCh case before any fetch.
\* (variants: the uncle test alone; never)
CheapPathIgnoresConflict(header, conflict) == header.uncleHash = EmptyUncleHash

CheapPathNever(header, conflict) == FALSE

CheapPath(header, conflict) == header.uncleHash = EmptyUncleHash /\ ~conflict

\* statusLatestHead = latestHead: the status head after the assignment of
\* the headCh case, which precedes the test for the cheap path.
\* (variant: the assignment is made on the full path only)
AssignStatusFullOnly(latestHead, status, cheap) ==
  IF cheap THEN status ELSE latestHead

AssignStatus(latestHead, status, cheap) == latestHead

\* case header := <-headCh: the header is received and the rows of other
\* hashes at its height are marked as orphans.  The result of that bulk
\* update is discarded: the case goes on whether it failed or not.
CanonHead ==
  /\ AtSelect
  /\ headCh # <<>>
  /\ headCh' = Recv(headCh).rest
  /\ arrival' = Taken("head")
  /\ \E failed \in BOOLEAN :
       /\ db' = Demote(db, Chain[Recv(headCh).msg].number, Recv(headCh).msg, failed).db
       /\ Continue([Event("head", Recv(headCh).msg, Len(headCh)) EXCEPT
                      !.prevHead = statusLatestHead.Hash,
                      !.prevRecv = last.recv,
                      !.recv = Recv(headCh).msg,
                      !.ignored = failed],
                   <<Task("send", Recv(headCh).msg, FALSE, "", 0)>>)
  /\ UNCHANGED <<statusLatestHead, sideHeadCh, trailerCh, delivered, sideSub, headSub,
                 teardown, served, walk, runs>>

\* The headCh case from the conflict flag on: the header is sent to
\* trailerCh (a send on a full channel never completes: the loop is its only
\* receiver), the status head is assigned, and the case ends here on the cheap
\* path or goes on with handleHeader(header, false, "").
SendToTrailer ==
  /\ At("send")
  /\ IF Len(trailerCh) >= TrailerCap
     THEN /\ loop' = "blocked"
          /\ last' = [last EXCEPT
                        !.path = "blocked",
                        !.conflict = Conflict(appHeader(WireHeader(Head(pc).b)),
                                              statusLatestHead)]
          /\ UNCHANGED <<statusLatestHead, trailerCh, arrival, quitCh, pc>>
     ELSE /\ trailerCh' = Append(trailerCh, Head(pc).b)
          /\ arrival' = Append(arrival, [ch |-> "trailer", hdr |-> Head(pc).b])
          /\ statusLatestHead' =
               AssignStatus(appHeader(WireHeader(Head(pc).b)), statusLatestHead,
                            CheapPath(WireHeader(Head(pc).b),
                                      Conflict(appHeader(WireHeader(Head(pc).b)),
                                               statusLatestHead)))
          /\ IF CheapPath(WireHeader(Head(pc).b),
                          Conflict(appHeader(WireHeader(Head(pc).b)), statusLatestHead))
             THEN Continue([last EXCEPT
                              !.path = "cheap",
                              !.conflict = Conflict(appHeader(WireHeader(Head(pc).b)),
                                                    statusLatestHead)],
                           Tail(pc))
             ELSE Continue([last EXCEPT
                              !.path = "full",
                              !.conflict = Conflict(appHeader(WireHeader(Head(pc).b)),
                                                    statusLatestHead)],
                           <<Task("handleHeader", Head(pc).b, FALSE, "", 0)>> \o Tail(pc))
  /\ UNCHANGED <<db, sideHeadCh, headCh, delivered, sideSub, headSub,
                 teardown, served, walk, runs>>

\* The rows the trailer's query returns: WHERE number = trailerHeight.
StoredAt(d, height) ==
  {i \in 1..Len(d.headers) : ToU64(d.headers[i].Number) = height}

\* The test that triggers the trailer's corrective fetch.
\* (variant: more than one canonical row only)
NeedsFetchOnlyIfMany(countCanonical) == countCanonical > 1

NeedsFetch(countCanonical) == countCanonical < 1 \/ countCanonical > 1

\* The canonical rows among the rows the trailer's query returned.
CountCanonical(d, storedHeaders) ==
  Cardinality({i \in storedHeaders : ~d.headers[i].Orphan})

\* The trailerCh case after the query returned the rows storedHeaders, of
\* which countCanonical have orphan=false.
trailerCase(ev, storedHeaders, countCanonical) ==
  IF storedHeaders = {} THEN Continue([ev EXCEPT !.path = "noop"], <<>>)
  ELSE IF ~NeedsFetch(countCanonical) THEN Continue([ev EXCEPT !.path = "ok"], <<>>)
  ELSE Continue([ev EXCEPT !.path = "fetch"],
                <<Task("BlockByNumber", ev.hdr, FALSE, "", trailHeight)>>)

\* case header := <-trailerCh: the header is received and the rows at
\* header.Number - trailHeight are queried.
Trailer ==
  /\ AtSelect
  /\ trailerCh # <<>>
  /\ trailerCh' = Recv(trailerCh).rest
  /\ arrival' = Taken("trailer")
  /\ \E failed \in BOOLEAN :
       IF failed
       THEN Abort(Event("trailer", Recv(trailerCh).msg, Len(trailerCh)))
       ELSE trailerCase(Event("trailer", Recv(trailerCh).msg, Len(trailerCh)),
                        StoredAt(db, U64Sub(Chain[Recv(trailerCh).msg].number, trailHeight)),
                        CountCanonical(db, StoredAt(db, U64Sub(Chain[Recv(trailerCh).msg].number,
                                                              trailHeight))))
  /\ UNCHANGED <<db, statusLatestHead, sideHeadCh, headCh, delivered,
                 sideSub, headSub, teardown, served, walk, runs>>

\* client.BlockByNumber(n) in the sideHeadCh case and in the trailerCh case:
\* on an error the loop returns, otherwise the block the node reports is
\* handled as canonical.
FetchCanonical ==
  /\ At("BlockByNumber")
  /\ \E failed \in BOOLEAN :
       IF failed
       THEN Abort([last EXCEPT !.calls = Append(@, Call("BlockByNumber", Head(pc).n))])
       ELSE \E canonBlock \in BlockByNumber(Head(pc).n) :
              Continue([last EXCEPT !.calls = Append(@, Call("BlockByNumber", Head(pc).n)),
                                    !.canon = canonBlock],
                       <<Task("handleHeader", canonBlock, FALSE, "", 0)>> \o Tail(pc))
  /\ UNCHANGED <<db, statusLatestHead, sideHeadCh, headCh, trailerCh, delivered,
                 sideSub, headSub, arrival, teardown, served, walk, runs>>

\* handleHeader from its entry to the uncle loop: BlockByHash and the
\* conversion of the block's transactions; either can fail, and then the
\* loop returns.
FetchBlock ==
  /\ At("handleHeader")
  /\ \E failed \in BOOLEAN :
       IF failed
       THEN /\ Abort([last EXCEPT !.calls = Append(@, Call("BlockByHash", Head(pc).b))])
            /\ db' = db
       ELSE IF blockTxes2AppTxes(BlockByHash(Head(pc).b).txs).err
       THEN /\ Abort([last EXCEPT !.calls = Append(@, Call("BlockByHash", Head(pc).b)),
                                  !.txerr = Head(pc).b])
            /\ db' = handleHeaderTxError(db, Head(pc).b, Head(pc).orphan, Head(pc).by)
       ELSE /\ Continue([last EXCEPT !.calls = Append(@, Call("BlockByHash", Head(pc).b))],
                        handleHeaderBody(Head(pc)) \o Tail(pc))
            /\ db' = db
  /\ UNCHANGED <<statusLatestHead, sideHeadCh, headCh, trailerCh, delivered,
                 sideSub, headSub, arrival, teardown, served, walk, runs>>

\* The first statement of CreateOrUpdate: when it fails nothing is written
\* and the loop returns.
Create ==
  /\ At("Create")
  /\ \E failed \in BOOLEAN :
       IF failed
       THEN Abort(last) /\ db' = db
       ELSE /\ db' = CreateHeader(db, handleHeaderRecord(Head(pc).b, Head(pc).orphan,
                                                         Head(pc).by),
                                  AssignCols(Head(pc).by))
            /\ Continue(last, AfterCreate(Head(pc)) \o Tail(pc))
  /\ UNCHANGED <<statusLatestHead, sideHeadCh, headCh, trailerCh, delivered,
                 sideSub, headSub, arrival, teardown, served, walk, runs>>

\* The second statement of CreateOrUpdate: when it fails the loop returns
\* with the header row of the first statement in the store.
CreateTxs ==
  /\ At("CreateTxes")
  /\ \E failed \in BOOLEAN :
       IF failed
       THEN Abort(last) /\ db' = db
       ELSE /\ db' = CreateTxes(db, handleHeaderRecord(Head(pc).b, Head(pc).orphan,
                                                       Head(pc).by))
            /\ Continue(last, Tail(pc))
  /\ UNCHANGED <<statusLatestHead, sideHeadCh, headCh, trailerCh, delivered,
                 sideSub, headSub, arrival, teardown, served, walk, runs>>

\* The bulk update that ends handleHeader for a canonical header.  Its result
\* is discarded: handleHeader returns without error whether it failed or not.
Update ==
  /\ At("Update")
  /\ \E failed \in BOOLEAN :
       /\ db' = Demote(db, Chain[Head(pc).b].number, Head(pc).b, failed).db
       /\ Continue([last EXCEPT !.ignored = @ \/ failed], Tail(pc))
  /\ UNCHANGED <<statusLatestHead, sideHeadCh, headCh, trailerCh, delivered,
                 sideSub, headSub, arrival, teardown, served, walk, runs>>

\* case sig := <-interruptCh: the signal is passed on to quitCh and the
\* loop returns.
Interrupt ==
  /\ AtSelect
  /\ loop' = "stopped"
  /\ quitCh' = Append(quitCh, "os.Interrupt")
  /\ last' = [Event("interrupt", "", 0) EXCEPT !.done = TRUE]
  /\ UNCHANGED <<db, statusLatestHead, sideHeadCh, headCh, trailerCh, pc, delivered,
                 sideSub, headSub, arrival, teardown, served, walk, runs>>

\* ---------------------------------------------------------------- shutdown
\* teardown: the statements of the shutdown point the main goroutine has
\* performed so far, in order; "panic" ends the list when a statement
\* panicked.  The other goroutines run between any two of them.

\* The whole teardown, as the shutdown point performs it when nothing
\* panics.
WholeTeardown ==
  <<"<-quitCh", "srv.Shutdown", "httpServerExitDone.Wait",
    "sideSub.Unsubscribe", "headSub.Unsubscribe">>

\* The main goroutine is past the statement named last in sofar.
AtTeardown(sofar) == teardown = sofar

\* The run is over: the shutdown point ran to its end or panicked.
TeardownOver ==
  /\ teardown # <<>>
  /\ teardown[Len(teardown)] \in {"panic", "headSub.Unsubscribe"}

\* The HTTP server accepts requests until srv.Shutdown is called.
ServerUp == \A k \in 1..Len(teardown) : teardown[k] # "srv.Shutdown"

\* <-quitCh: the main goroutine takes the signal.
Shutdown ==
  /\ quitCh # <<>>
  /\ teardown = <<>>
  /\ quitCh' = Tail(quitCh)
  /\ teardown' = <<"<-quitCh">>
  /\ UNCHANGED <<db, statusLatestHead, sideHeadCh, headCh, trailerCh, loop, pc,
                 delivered, last, sideSub, headSub, arrival, served, walk, runs>>

\* srv.Shutdown(shutdownCtx): the server stops; panic(err) when it returns
\* an error (a request still in flight at the deadline).
SrvShutdown ==
  /\ AtTeardown(SubSeq(WholeTeardown, 1, 1))
  /\ \E srvErr \in BOOLEAN :
       teardown' = IF srvErr THEN teardown \o <<"srv.Shutdown", "panic">>
                   ELSE Append(teardown, "srv.Shutdown")
  /\ UNCHANGED <<db, statusLatestHead, sideHeadCh, headCh, trailerCh, loop, pc,
                 delivered, last, quitCh, sideSub, headSub, arrival, served, walk,
                 runs>>

\* httpServerExitDone.Wait(): the server goroutine has ended.
ServerExitWait ==
  /\ AtTeardown(SubSeq(WholeTeardown, 1, 2))
  /\ teardown' = Append(teardown, "httpServerExitDone.Wait")
  /\ UNCHANGED <<db, statusLatestHead, sideHeadCh, headCh, trailerCh, loop, pc,
                 delivered, last, quitCh, sideSub, headSub, arrival, served, walk,
                 runs>>

\* sideSub.Unsubscribe(): panics on the nil subscription a failed
\* re-subscription left.
SideUnsubscribe ==
  /\ AtTeardown(SubSeq(WholeTeardown, 1, 3))
  /\ teardown' = IF sideSub = 0 THEN teardown \o <<"sideSub.Unsubscribe", "panic">>
                 ELSE Append(teardown, "sideSub.Unsubscribe")
  /\ UNCHANGED <<db, statusLatestHead, sideHeadCh, headCh, trailerCh, loop, pc,
                 delivered, last, quitCh, sideSub, headSub, arrival, served, walk,
                 runs>>

\* headSub.Unsubscribe(): likewise; after it Run returns.
HeadUnsubscribe ==
  /\ AtTeardown(SubSeq(WholeTeardown, 1, 4))
  /\ teardown' = IF headSub = 0 THEN teardown \o <<"headSub.Unsubscribe", "panic">>
                 ELSE Append(teardown, "headSub.Unsubscribe")
  /\ UNCHANGED <<db, statusLatestHead, sideHeadCh, headCh, trailerCh, loop, pc,
                 delivered, last, quitCh, sideSub, headSub, arrival, served, walk,
                 runs>>

\* The program is started again on the same database file after a run
\* ended: the file keeps what the run left (sqlite.Open and AutoMigrate
\* delete nothing), the channels, subscriptions and the status head are new.
Restart ==
  /\ TeardownOver
  /\ runs < MaxRuns
  /\ runs' = runs + 1
  /\ statusLatestHead' \in {appHeader(WireHeader(b)) : b \in StartHeads}
  /\ sideHeadCh' = <<>>
  /\ headCh' = <<>>
  /\ trailerCh' = <<>>
  /\ arrival' = <<>>
  /\ quitCh' = <<>>
  /\ teardown' = <<>>
  /\ loop' = "running"
  /\ pc' = <<>>
  /\ sideSub' = 1
  /\ headSub' = 1
  /\ last' = [NoEvent EXCEPT !.db0 = db]
  /\ UNCHANGED <<db, delivered, served, walk>>

Next ==
  \/ SubscribeNewHead
  \/ SubscribeNewSideHead
  \/ SideSubErr
  \/ HeadSubErr
  \/ SideHead
  \/ CanonHead
  \/ SendToTrailer
  \/ Trailer
  \/ FetchCanonical
  \/ FetchBlock
  \/ Create
  \/ CreateTxs
  \/ Update
  \/ Interrupt
  \/ Shutdown
  \/ SrvShutdown
  \/ ServerExitWait
  \/ SideUnsubscribe
  \/ HeadUnsubscribe
  \/ Restart

Spec == Init /\ [][Next]_vars

\* The same program from the state a burst of heads leaves: the node
\* announced A21 as many times as trailerCh has room to a run that started
\* at A20, and the select took every head event before any trailing check
\* (the first A21 took the cheap path, each repetition the full path).
\* MaxEvents further events are delivered from there.
InitBacklog ==
  /\ db = IF TrailerCap >= 2
          THEN CreateOrUpdate(EmptyDB, handleHeaderRecord("A21", FALSE, ""), AssignCols(""))
          ELSE EmptyDB
  /\ statusLatestHead = appHeader(WireHeader("A21"))
  /\ sideHeadCh = <<>>
  /\ headCh = <<>>
  /\ trailerCh = [i \in 1..TrailerCap |-> "A21"]
  /\ loop = "running"
  /\ pc = <<>>
  /\ delivered = 0
  /\ last = [NoEvent EXCEPT
               !.n = TrailerCap, !.op = "head", !.hdr = "A21", !.queued = 1,
               !.path = IF TrailerCap >= 2 THEN "full" ELSE "cheap",
               !.conflict = TrailerCap >= 2,
               !.calls = IF TrailerCap >= 2 THEN <<Call("BlockByHash", "A21")>> ELSE <<>>,
               !.prevHead = IF TrailerCap >= 2 THEN "A21" ELSE "A20",
               !.recv = "A21",
               !.prevRecv = IF TrailerCap >= 2 THEN "A21" ELSE "",
               !.db0 = IF TrailerCap >= 3
                       THEN CreateOrUpdate(EmptyDB, handleHeaderRecord("A21", FALSE, ""),
                                           AssignCols(""))
                       ELSE EmptyDB]
  /\ quitCh = <<>>
  /\ sideSub = 1
  /\ headSub = 1
  /\ arrival = [i \in 1..TrailerCap |-> [ch |-> "trailer", hdr |-> "A21"]]
  /\ teardown = <<>>
  /\ served = ""
  /\ walk = NoWalk
  /\ runs = 1

SpecBacklog == InitBacklog /\ [][Next]_vars

\* The same program with a node whose new heads all cite uncles (A12, whose
\* uncles are unrelated, and B12, whose second uncle cites the first one);
\* the side heads are as before.
NextUncles ==
  \/ SubscribeNewHeadWithUncles
  \/ SubscribeNewSideHead
  \/ SideSubErr
  \/ HeadSubErr
  \/ SideHead
  \/ CanonHead
  \/ SendToTrailer
  \/ Trailer
  \/ FetchCanonical
  \/ FetchBlock
  \/ Create
  \/ CreateTxs
  \/ Update
  \/ Interrupt
  \/ Shutdown
  \/ SrvShutdown
  \/ ServerExitWait
  \/ SideUnsubscribe
  \/ HeadUnsubscribe
  \/ Restart

SpecUncles == Init /\ [][NextUncles]_vars

\* ------------------------------------------------------------ the HTTP API
\* The raw_sql parameter of /api/headers and /api/txes: a statement that
\* reads, one that deletes and one that updates.
RawQueries ==
  {"SELECT * FROM headers", "DELETE FROM headers",
   "UPDATE headers SET orphan = false"}

\* The effect of a statement on the tables it runs against.
ExecSQL(d, q) ==
  IF q = "DELETE FROM headers" THEN [d EXCEPT !.headers = <<>>]
  ELSE IF q = "UPDATE headers SET orphan = false"
  THEN [d EXCEPT !.headers = [i \in 1..Len(@) |-> [@[i] EXCEPT !.Orphan = FALSE]]]
  ELSE d

\* tx := db.Begin(): a transaction over the store as it stands.
Begin(d) == [base |-> d, work |-> d]

\* tx.Raw(q).Scan(...): the statement runs inside the transaction.
Raw(tx, q) == [tx EXCEPT !.work = ExecSQL(@, q)]

\* tx.Rollback(): the store is what it was at Begin.
\* (variant: tx.Commit(), the store is what the transaction made of it)
Commit(tx) == tx.work

Rollback(tx) == tx.base

\* A request with a raw_sql parameter, served while the server is up.
RawSQL ==
  /\ ServerUp
  /\ \E q \in RawQueries :
       /\ db' = Rollback(Raw(Begin(db), q))
       /\ served' = q
  /\ UNCHANGED <<statusLatestHead, sideHeadCh, headCh, trailerCh, loop, delivered,
                 last, quitCh, sideSub, headSub, arrival, teardown, walk, pc, runs>>

\* The program with its HTTP API serving raw_sql requests.
NextQuery == Next \/ RawSQL

SpecQuery == Init /\ [][NextQuery]_vars

\* ------------------------------------------- the recursion of handleHeader
InitRecursion ==
  /\ db = EmptyDB
  /\ statusLatestHead = appHeader(WireHeader("A20"))
  /\ sideHeadCh = <<>>
  /\ headCh = <<>>
  /\ trailerCh = <<>>
  /\ loop = "running"
  /\ pc = <<>>
  /\ runs = 1
  /\ delivered = 0
  /\ last = NoEvent
  /\ quitCh = <<>>
  /\ sideSub = 1
  /\ headSub = 1
  /\ arrival = <<>>
  /\ teardown = <<>>
  /\ served = ""
  /\ walk \in {[NoWalk EXCEPT !.uncles = g] : g \in UncleGraphs}

\* An event makes the loop call handleHeader for one of the blocks, as an
\* orphan (side head) or as a canonical block.
EnterHandleHeader ==
  /\ loop = "running"
  /\ walk.stack = <<>>
  /\ delivered < MaxEvents
  /\ delivered' = delivered + 1
  /\ \E b \in GraphBlocks, isOrphan \in BOOLEAN :
       walk' = [walk EXCEPT !.stack = <<Frame(b, isOrphan, "")>>,
                            !.returned = FALSE, !.deepest = 1, !.err = FALSE]
  /\ UNCHANGED <<db, statusLatestHead, sideHeadCh, headCh, trailerCh, loop,
                 last, quitCh, sideSub, headSub,
                 arrival, teardown, served, pc, runs>>

\* The innermost call and the number of uncles of its block.
Top == walk.stack[Len(walk.stack)]

TopUncles == Len(walk.uncles[Top.block])

\* The innermost call is at store statement stmt: it has not failed and its
\* uncle loop is over.
TopAt(stmt) ==
  /\ walk.stack # <<>>
  /\ ~walk.err
  /\ Top.i = TopUncles + 1
  /\ Top.at = stmt

\* The innermost call goes on to statement stmt.
TopGoes(stmt) ==
  walk' = [walk EXCEPT !.stack[Len(walk.stack)].at = stmt]

\* The uncle loop of the innermost call reaches an uncle: handleHeader is
\* called for it, as an orphan cited by the block of the caller.
CallHandleHeader ==
  /\ walk.stack # <<>>
  /\ ~walk.err
  /\ Len(walk.stack) < MaxDepth
  /\ Top.i <= TopUncles
  /\ walk' = [walk EXCEPT
                !.stack = Append(@, Frame(NextUncle(walk.uncles, Top),
                                          TRUE, Top.block)),
                !.deepest = IF Len(walk.stack) + 1 > @ THEN Len(walk.stack) + 1 ELSE @]
  /\ UNCHANGED <<db, statusLatestHead, sideHeadCh, headCh, trailerCh, loop,
                 delivered, last, quitCh, sideSub, headSub,
                 arrival, teardown, served, pc, runs>>

\* The uncle loop of the innermost call is over: the first statement of
\* header.CreateOrUpdate stores the header.  The second statement follows
\* if the header has transactions, the bulk update if it is canonical.
CreateHandleHeader ==
  /\ TopAt("Create")
  /\ db' = CreateHeader(db, GraphRecord(walk.uncles, Top), AssignCols(Top.by))
  /\ TopGoes(IF GraphTxs(Top.block) # <<>> THEN "CreateTxes"
             ELSE IF Top.orphan THEN "return" ELSE "Update")
  /\ UNCHANGED <<statusLatestHead, sideHeadCh, headCh, trailerCh, loop,
                 delivered, last, quitCh, sideSub, headSub,
                 arrival, teardown, served, pc, runs>>

\* The second statement of header.CreateOrUpdate.
CreateTxesHandleHeader ==
  /\ TopAt("CreateTxes")
  /\ db' = CreateTxes(db, GraphRecord(walk.uncles, Top))
  /\ TopGoes(IF Top.orphan THEN "return" ELSE "Update")
  /\ UNCHANGED <<statusLatestHead, sideHeadCh, headCh, trailerCh, loop,
                 delivered, last, quitCh, sideSub, headSub,
                 arrival, teardown, served, pc, runs>>

\* The bulk update of a canonical header, whose failure is not looked at.
UpdateHandleHeader ==
  /\ TopAt("Update")
  /\ \E failed \in BOOLEAN :
       db' = Demote(db, GraphNumber(Top.block), Top.block, failed).db
  /\ TopGoes("return")
  /\ UNCHANGED <<statusLatestHead, sideHeadCh, headCh, trailerCh, loop,
                 delivered, last, quitCh, sideSub, headSub,
                 arrival, teardown, served, pc, runs>>

\* return header, nil: the innermost call has made its store statements and
\* returns to its caller, whose uncle loop moves to the next uncle.
ReturnHandleHeader ==
  /\ TopAt("return")
  /\ walk' = [walk EXCEPT
                !.stack = IF Len(@) = 1 THEN <<>>
                          ELSE [SubSeq(@, 1, Len(@) - 1) EXCEPT
                                  ![Len(@) - 1].i = @ + 1],
                !.returned = Len(walk.stack) = 1]
  /\ UNCHANGED <<db, statusLatestHead, sideHeadCh, headCh, trailerCh, loop,
                 delivered, last, quitCh, sideSub, headSub,
                 arrival, teardown, served, pc, runs>>

\* The innermost call returns an error to its caller, whose loop does not
\* go on; when the caller is the main loop, it signals quitCh and returns.
\* What the call wrote before stays.
ReturnError ==
  /\ walk' = [walk EXCEPT !.stack = SubSeq(@, 1, Len(@) - 1),
                          !.err = TRUE,
                          !.returned = Len(walk.stack) = 1]
  /\ loop' = IF Len(walk.stack) = 1 THEN "stopped" ELSE loop
  /\ quitCh' = IF Len(walk.stack) = 1 THEN Append(quitCh, "os.Interrupt") ELSE quitCh
  /\ UNCHANGED <<db, statusLatestHead, sideHeadCh, headCh, trailerCh,
                 delivered, last, sideSub, headSub,
                 arrival, teardown, served, pc, runs>>

\* A call of the innermost handleHeader fails: BlockByHash or the conversion
\* of the transactions before its uncle loop, or, after it, a statement of
\* CreateOrUpdate.  A failed statement writes nothing; when it is the second
\* one, the header row of the first is in the store.
FailHandleHeader ==
  /\ walk.stack # <<>>
  /\ ~walk.err
  /\ \/ Top.i = 1 /\ Top.at = "Create"
     \/ TopAt("Create")
     \/ TopAt("CreateTxes")
  /\ ReturnError

\* The nested call returned an error: the uncle loop returns it (return
\* nil, err) without handling the remaining uncles or storing the header.
UncleFailedHandleHeader ==
  /\ walk.stack # <<>>
  /\ walk.err
  /\ ReturnError

NextRecursion ==
  \/ EnterHandleHeader
  \/ CallHandleHeader
  \/ CreateHandleHeader
  \/ CreateTxesHandleHeader
  \/ UpdateHandleHeader
  \/ ReturnHandleHeader
  \/ FailHandleHeader
  \/ UncleFailedHandleHeader

SpecRecursion == InitRecursion /\ [][NextRecursion]_vars

\* ---------------------------------------------------------- CreateOrUpdate
\* A second specification that calls Header.CreateOrUpdate directly, as the
\* repository's test does, with headers and column lists drawn from small
\* sets.  last.n counts the consecutive calls with identical arguments.
UpsertBlocks == {"B10", "A11", "B11"}

AssignColsSets == {<<>>, <<"orphan">>, <<"uncle_by">>, <<"orphan", "uncle_by">>}

UpsertHeaders ==
  {[appHeader(WireHeader(b)) EXCEPT
      !.Orphan = o, !.UncleBy = u,
      !.Txes = blockTxes2AppTxes(Chain[b].txs).txes,
      !.Uncle1 = IF Len(Chain[b].uncles) > 0 THEN Chain[b].uncles[1] ELSE ""]
   : b \in UpsertBlocks, o \in BOOLEAN, u \in {"", "A12"}}

CallCreateOrUpdate ==
  /\ \E h \in UpsertHeaders, assignCols \in AssignColsSets :
       LET r == [db |-> CreateOrUpdate(db, h, assignCols), err |-> FALSE]
           args == <<h, assignCols>>
           same == last.op = "CreateOrUpdate" /\ last.args = args
       IN /\ db' = r.db
          /\ last' = [NoEvent EXCEPT
                        !.op = "CreateOrUpdate", !.hdr = h.Hash, !.args = args,
                        !.err = r.err,
                        !.n = IF same
                              THEN (IF last.n < MaxRepeat THEN last.n + 1 ELSE MaxRepeat)
                              ELSE 1]
  /\ UNCHANGED <<statusLatestHead, sideHeadCh, headCh, trailerCh, loop, delivered,
                 quitCh, sideSub, headSub, arrival, teardown, served, walk, pc, runs>>

NextUpsert == CallCreateOrUpdate

SpecUpsert == Init /\ [][NextUpsert]_vars

\* ================================================================== claims
\* Helpers over the stored rows.
Rows == {db.headers[i] : i \in 1..Len(db.headers)}

RowsOf(hash) == {i \in 1..Len(db.headers) : db.headers[i].Hash = hash}

\* hash has a row, and every row of hash has this orphan flag.
Stored(hash, orphan) ==
  /\ RowsOf(hash) # {}
  /\ \A i \in RowsOf(hash) : db.headers[i].Orphan = orphan

CanonicalRowsAt(d, number) ==
  {i \in 1..Len(d.headers) : d.headers[i].Number = number /\ ~d.headers[i].Orphan}

RowsAt(d, number) == {i \in 1..Len(d.headers) : d.headers[i].Number = number}

Called(rpc, arg) == \E i \in 1..Len(last.calls) : last.calls[i] = [rpc |-> rpc, arg |-> arg]

\* A loop iteration has just ended (last' describes it, last'.db0 is the
\* store it started from).
Step == last'.done /\ last'.n = last.n + (IF last.done THEN 1 ELSE 0)

\* The most recent iteration was op, and it is over.
Ended(op) == last.op = op /\ last.done

\* C1 as stated: whenever the loop is back at its select or has returned
\* after an iteration without error, at most one stored row of any height has
\* orphan=false.
C1_AtMostOneCanonicalPerHeight ==
  (last.done /\ ~last.err) =>
    \A i, j \in 1..Len(db.headers) :
      (/\ db.headers[i].Number = db.headers[j].Number
       /\ ~db.headers[i].Orphan
       /\ ~db.headers[j].Orphan) => i = j

\* C2 as stated: every side-head event for S processed without error leaves
\* the row of S with orphan=true and the row of the block the node reports as
\* canonical at that height with orphan=false.
C2_SideHeadLeavesPair ==
  (Ended("side") /\ ~last.err) =>
     (Stored(last.hdr, TRUE) /\ Stored(last.canon, FALSE))

\* C2 amended: a side-head event for S processed without error leaves the row
\* of the block C the node reports as canonical at that height with
\* orphan=false and, when S is not C, the row of S with orphan=true.
C2_SideHeadLeavesCanonical ==
  (Ended("side") /\ ~last.err) =>
     /\ Chain[last.canon].number = Chain[last.hdr].number
     /\ Stored(last.canon, FALSE)
     /\ last.canon # last.hdr => Stored(last.hdr, TRUE)
     /\ Called("BlockByNumber", Chain[last.hdr].number)

\* C2 witness: a side-head event whose canonical counterpart is another block
\* has been processed and both rows are stored.
C2_Witness ==
  /\ Ended("side") /\ ~last.err
  /\ last.canon # last.hdr
  /\ Stored(last.hdr, TRUE)
  /\ Stored(last.canon, FALSE)

\* C3 as stated: after a canonical-head event for H is fully processed
\* without error, H is stored with orphan=false and every uncle H lists is
\* stored with orphan=true and uncleBy = hash of H.
C3_HeadWithUnclesStored ==
  (Ended("head") /\ last.path = "full" /\ ~last.err) =>
     /\ Stored(last.hdr, FALSE)
     /\ \A u \in Range(Chain[last.hdr].uncles) :
          /\ Stored(u, TRUE)
          /\ \A i \in RowsOf(u) : db.headers[i].UncleBy = last.hdr

\* The header upserts one handleHeader(b, _, by) call makes, in order: those
\* of the nested call for each uncle of b, then the one of b itself with
\* uncle_by = by.
RECURSIVE handleHeaderUpserts(_, _)
handleHeaderUpserts(b, by) ==
  LET uncles == BlockByHash(b).uncles
      nested == [i \in 1..Len(uncles) |-> handleHeaderUpserts(uncles[i], b)]
      cat[i \in 0..Len(uncles)] ==
        IF i = 0 THEN <<>> ELSE cat[i - 1] \o nested[i]
  IN cat[Len(uncles)] \o <<[hash |-> b, by |-> by]>>

\* The uncle_by value the last of these upserts writes for hash u.
LastCiter(b, u) ==
  LET w == handleHeaderUpserts(b, "")
      k == CHOOSE i \in 1..Len(w) :
             w[i].hash = u /\ \A j \in (i + 1)..Len(w) : w[j].hash # u
  IN w[k].by

\* C3 amended: after a canonical-head event for H is fully processed without
\* error, H is stored with orphan=false and every uncle H lists is stored
\* with orphan=true and with the uncleBy of the last upsert the event made
\* for it: the hash of H, unless a block handled later in the same event
\* (an uncle listed after it, or an uncle of that one) cites it too, and
\* then the hash of that block.
C3_HeadWithUnclesStoredLastCiter ==
  (Ended("head") /\ last.path = "full" /\ ~last.err) =>
     /\ Stored(last.hdr, FALSE)
     /\ \A k \in 1..Len(Chain[last.hdr].uncles) :
          LET u == Chain[last.hdr].uncles[k]
              later == {Chain[last.hdr].uncles[j] :
                          j \in (k + 1)..Len(Chain[last.hdr].uncles)}
          IN /\ Stored(u, TRUE)
             /\ \A i \in RowsOf(u) :
                  /\ db.headers[i].UncleBy = LastCiter(last.hdr, u)
                  /\ (\A v \in later : u \notin Range(Chain[v].uncles))
                       => db.headers[i].UncleBy = last.hdr

\* C3 witness: the head B12, which cites B10 and then B11, has been
\* processed: B11 is stored as an uncle of B12 and B10, which B11 cites too,
\* as an uncle of B11.
C3_Witness ==
  /\ Ended("head") /\ last.path = "full" /\ ~last.err
  /\ last.hdr = "B12"
  /\ \E r \in Rows : r.Hash = "B11" /\ r.Orphan /\ r.UncleBy = "B12"
  /\ \E r \in Rows : r.Hash = "B10" /\ r.Orphan /\ r.UncleBy = "B11"

\* C4 as stated: when a canonical-head event records the uncles of its block,
\* the canonical block at each uncle's height is fetched by number and a row
\* with orphan=false exists at that height afterwards.
C4_UncleHeightHasCanonical ==
  (Ended("head") /\ last.path = "full" /\ ~last.err) =>
     \A u \in Range(Chain[last.hdr].uncles) :
       /\ Called("BlockByNumber", Chain[u].number)
       /\ CanonicalRowsAt(db, Chain[u].number) # {}

\* C5: a canonical-head event with a detected conflict is fully processed,
\* uncles or not: its block is fetched by hash and, unless an error stops
\* the loop, its row is stored with orphan=false.
C5_ConflictForcesFullProcessing ==
  (Ended("head") /\ last.conflict) =>
     /\ last.path = "full"
     /\ Called("BlockByHash", last.hdr)
     /\ ~last.err => Stored(last.hdr, FALSE)

\* C5 witness: a conflicting head without uncles has been stored.
C5_Witness ==
  /\ Ended("head") /\ last.conflict /\ ~last.err
  /\ Chain[last.hdr].uncles = <<>>
  /\ Stored(last.hdr, FALSE)

\* C6: a canonical-head event without uncles and without conflict fetches
\* no block and inserts nothing: the tables keep their rows, and only the
\* orphan flag of other rows at its height may change.
C6_CheapPathFrame ==
  [][(/\ Step
      /\ last'.op = "head"
      /\ Chain[last'.hdr].uncles = <<>>
      /\ ~last'.conflict)
     => (/\ last'.calls = <<>>
         /\ ~last'.err
         /\ db'.txes = last'.db0.txes
         /\ db'.header_txes = last'.db0.header_txes
         /\ Len(db'.headers) = Len(last'.db0.headers)
         /\ \A i \in 1..Len(last'.db0.headers) :
              \/ db'.headers[i] = last'.db0.headers[i]
              \/ /\ last'.db0.headers[i].Number = Chain[last'.hdr].number
                 /\ last'.db0.headers[i].Hash # last'.hdr
                 /\ db'.headers[i] = [last'.db0.headers[i] EXCEPT !.Orphan = TRUE])]_vars

\* C6 witness: a head took the cheap path while the store held rows and no
\* row for the head itself.
C6_Witness ==
  /\ Ended("head") /\ last.path = "cheap"
  /\ Len(db.headers) > 0
  /\ RowsOf(last.hdr) = {}

\* C7: after every canonical-head event for H at height N, no stored row at
\* N other than H's has orphan=false.
C7_HeadDemotesSiblings ==
  Ended("head") =>
    \A i \in RowsAt(db, Chain[last.hdr].number) :
      db.headers[i].Hash # last.hdr => db.headers[i].Orphan

\* The height a trailer event for head hdr examines, when it does not wrap.
TrailedRows(d, hdr) ==
  {i \in 1..Len(d.headers) : d.headers[i].Number + trailHeight = Chain[hdr].number}

TrailedCanonical(d, hdr) == {i \in TrailedRows(d, hdr) : ~d.headers[i].Orphan}

\* C8 as stated: when the trailing check finds no row with orphan=false at
\* its height T (no row at all included), it fetches block T by number and,
\* unless the fetch or the store fails, a canonical row exists at T.
C8_ZeroCanonicalTriggersFetch ==
  [][(/\ Step
      /\ last'.op = "trailer"
      /\ Chain[last'.hdr].number >= trailHeight
      /\ TrailedCanonical(last'.db0, last'.hdr) = {}
      /\ ~last'.err)
     => (/\ \E i \in 1..Len(last'.calls) :
              /\ last'.calls[i].rpc = "BlockByNumber"
              /\ last'.calls[i].arg + trailHeight = Chain[last'.hdr].number
         /\ TrailedCanonical(db', last'.hdr) # {})]_vars

\* C8 amended: when the trailing check finds at least one row stored at T
\* and not exactly one of them with orphan=false, it fetches a block by
\* number (the block at height trailHeight) and stores the fetched block with
\* orphan=false, and the loop goes on; when no row is stored at T it fetches
\* and writes nothing.
C8_TrailerCorrectiveFetch ==
  [][(Step /\ last'.op = "trailer" /\ ~last'.err)
     => (/\ TrailedRows(last'.db0, last'.hdr) = {}
            => (last'.calls = <<>> /\ db' = last'.db0)
         /\ (/\ TrailedRows(last'.db0, last'.hdr) # {}
             /\ Cardinality(TrailedCanonical(last'.db0, last'.hdr)) # 1)
            => (/\ Len(last'.calls) >= 2
                /\ last'.calls[1] = [rpc |-> "BlockByNumber", arg |-> trailHeight]
                /\ last'.calls[2] = [rpc |-> "BlockByHash", arg |-> last'.canon]
                /\ \E i \in 1..Len(db'.headers) :
                     /\ db'.headers[i].Hash = last'.canon
                     /\ ~db'.headers[i].Orphan)
         /\ loop' = "running")]_vars

\* C8 witness: a trailing check found rows at T, none canonical, and its
\* corrective fetch completed.
C8_Witness ==
  /\ Ended("trailer") /\ last.path = "fetch" /\ ~last.err
  /\ Stored(last.canon, FALSE)
  /\ loop = "running"

\* C9 as stated: the block the trailing check fetches is the block at the
\* height T it counted rows for, and after a check that completed without
\* error exactly one row at T has orphan=false.
C9_TrailerFetchesCheckedHeight ==
  (Ended("trailer") /\ last.path = "fetch") =>
     /\ Len(last.calls) >= 1
     /\ last.calls[1].arg + trailHeight = Chain[last.hdr].number
     /\ ~last.err => Cardinality(TrailedCanonical(db, last.hdr)) = 1

\* C10: calling CreateOrUpdate again with the same header and the same
\* assignCols leaves all three tables as the first call left them.
C10_CreateOrUpdateIdempotent ==
  [][(last'.op = "CreateOrUpdate" /\ last'.n >= 2) => db' = db]_vars

\* C10 witness: the same call was made twice in a row for a header with
\* transactions whose row is stored.
C10_Witness ==
  /\ last.op = "CreateOrUpdate" /\ last.n >= 2
  /\ Len(last.args[1].Txes) > 0
  /\ RowsOf(last.hdr) # {}
  /\ \E i \in 1..Len(db.header_txes) : db.header_txes[i].header_hash = last.hdr

\* C11: a CreateOrUpdate call for a hash that already has a row adds no
\* headers row, changes in that row only the columns named in assignCols,
\* leaves every other headers row as it was and keeps every transaction
\* link and transaction row stored before the call.
C11_UpsertChangesOnlyAssignCols ==
  [][(last'.op = "CreateOrUpdate" /\ RowsOf(last'.hdr) # {})
     => LET h == last'.args[1]
            cols == Range(last'.args[2])
        IN /\ Len(db'.headers) = Len(db.headers)
           /\ \A i \in 1..Len(db.headers) :
                IF db.headers[i].Hash = h.Hash
                THEN db'.headers[i] =
                       [db.headers[i] EXCEPT
                          !.Orphan = IF "orphan" \in cols THEN h.Orphan ELSE @,
                          !.UncleBy = IF "uncle_by" \in cols THEN h.UncleBy ELSE @]
                ELSE db'.headers[i] = db.headers[i]
           /\ Len(db'.header_txes) >= Len(db.header_txes)
           /\ \A i \in 1..Len(db.header_txes) : db'.header_txes[i] = db.header_txes[i]
           /\ \A i \in 1..Len(db.header_txes) :
                db.header_txes[i].header_hash = h.Hash
                  => \E j \in 1..Len(db'.txes) : db'.txes[j].Hash = db.header_txes[i].tx_hash]_vars

\* C11 witness: a header was stored again with assignCols = (orphan) as
\* canonical, and its row still carries the uncle_by it was first stored
\* with, which the new record does not have.
C11_Witness ==
  /\ last.op = "CreateOrUpdate"
  /\ last.args[2] = <<"orphan">>
  /\ ~last.args[1].Orphan
  /\ \E i \in RowsOf(last.hdr) :
       /\ db.headers[i].UncleBy # last.args[1].UncleBy
       /\ ~db.headers[i].Orphan

\* db.Preload("Txes").First(&out, "hash = ?", hash): the transactions a
\* header reads back with, one per (link, transaction row) match.
Preload(d, hash) ==
  {<<i, j>> \in (1..Len(d.header_txes)) \X (1..Len(d.txes)) :
     /\ d.header_txes[i].header_hash = hash
     /\ d.header_txes[i].tx_hash = d.txes[j].Hash}

\* C12: however many headers carrying the same transactions are stored,
\* there is one txes row per transaction hash and one link per (header,
\* transaction) pair, every stored header reads back with exactly the
\* transactions of its block, and no call returns an error.
C12_SharedTxesStoredOnce ==
  /\ \A i, j \in 1..Len(db.txes) : db.txes[i].Hash = db.txes[j].Hash => i = j
  /\ \A i, j \in 1..Len(db.header_txes) : db.header_txes[i] = db.header_txes[j] => i = j
  /\ \A r \in Rows :
       /\ Cardinality(Preload(db, r.Hash)) = Len(Chain[r.Hash].txs)
       /\ \A t \in Range(Chain[r.Hash].txs) :
            \E p \in Preload(db, r.Hash) : db.txes[p[2]].Hash = t
  /\ last.op = "CreateOrUpdate" => ~last.err

\* C12 witness: A11 and B11, which carry the same two transactions, are both
\* stored and each reads back with both.
C12_Witness ==
  /\ RowsOf("A11") # {} /\ RowsOf("B11") # {}
  /\ Chain["A11"].txs = Chain["B11"].txs
  /\ Cardinality(Preload(db, "A11")) = 2
  /\ Cardinality(Preload(db, "B11")) = 2
  /\ Len(db.txes) = 2

\* C13 as stated: whenever a block fetch or a store write of a loop
\* iteration returned an error, checked by the code or not, the loop has
\* stopped and has signalled shutdown on quitCh.
C13_AnyErrorStopsLoop ==
  (last.op \in {"side", "head", "trailer"} /\ last.done /\ (last.err \/ last.ignored))
     => (loop = "stopped" /\ (quitCh # <<>> \/ teardown # <<>>))

\* C14 as stated: when the sender of a transaction of a handled block cannot
\* be recovered, the header row of that block is stored with the error
\* recorded on it and the loop keeps running.
C14_UnrecoverableSenderKeepsHeader ==
  last.txerr # "" =>
    /\ loop = "running"
    /\ \E r \in Rows : r.Hash = last.txerr /\ r.Error # ""

\* The error texts that contain "connection" in some letter case, and the
\* iterations that handle a subscription error.
ConnectionTexts == {ConnectionReset, ConnectionRefused}

SubErrOps == {"sideSubErr", "headSubErr"}

\* What a subscription-error iteration leaves alone: the store, the status
\* head, the queues and the other subscription.
SubErrFrame ==
  /\ db' = db
  /\ statusLatestHead' = statusLatestHead
  /\ sideHeadCh' = sideHeadCh /\ headCh' = headCh /\ trailerCh' = trailerCh
  /\ last'.op = "sideSubErr" => headSub' = headSub
  /\ last'.op = "headSubErr" => sideSub' = sideSub

\* The subscription the iteration is about, before and after it.
ErrSubBefore == IF last'.op = "sideSubErr" THEN sideSub ELSE headSub

ErrSubAfter == IF last'.op = "sideSubErr" THEN sideSub' ELSE headSub'

\* C15 as stated: when a subscription reports an error whose text contains
\* "connection" in any letter case, the loop replaces that subscription by a
\* new one, leaves the other subscription and the store untouched, signals
\* no shutdown and keeps running.
C15_TransientErrorResubscribes ==
  [][(Step /\ last'.op \in SubErrOps /\ last'.text \in ConnectionTexts)
     => (/\ SubErrFrame
         /\ ErrSubAfter \notin {0, ErrSubBefore}
         /\ quitCh' = quitCh
         /\ loop' = "running")]_vars

\* C15 amended: on such an error the loop calls the subscribe function of
\* that subscription only and touches neither the other subscription nor
\* the store; when the call succeeds the subscription is replaced, no
\* shutdown is signalled and the loop keeps running; when the call returns
\* an error the loop signals shutdown and returns.
C15_TransientErrorResubscribesOrQuits ==
  [][(Step /\ last'.op \in SubErrOps /\ last'.text \in ConnectionTexts)
     => (/\ SubErrFrame
         /\ last'.calls = <<[rpc |-> IF last'.op = "sideSubErr"
                                      THEN "SubscribeNewSideHead"
                                      ELSE "SubscribeNewHead",
                              arg |-> ""]>>
         /\ IF last'.subErr = NoError
            THEN /\ ErrSubAfter \notin {0, ErrSubBefore}
                 /\ quitCh' = quitCh
                 /\ loop' = "running"
            ELSE /\ quitCh' = Append(quitCh, "os.Interrupt")
                 /\ loop' = "stopped")]_vars

\* C15 witness: the side subscription was replaced after a connection
\* error, the head subscription is still the first one, and a header event
\* was processed afterwards.
C15_Witness ==
  /\ sideSub = 2 /\ headSub = 1
  /\ last.op \in {"side", "head"}
  /\ last.n >= 2
  /\ loop = "running"

\* C16 as stated: the engine never stops, and shutdown is never signalled,
\* in an iteration in which every error was a connectivity error of a
\* subscription (the error reported by Err() and the error of the
\* re-subscription call, if any).
C16_TransientErrorsNeverStop ==
  (/\ last.op \in SubErrOps
   /\ last.text \in ConnectionTexts
   /\ last.subErr \in {NoError} \cup ConnectionTexts)
     => (loop = "running" /\ quitCh = <<>>)

\* C16 amended: the engine stops on a transient subscription error only when
\* the re-subscription call itself returned an error; after a transient
\* error whose re-subscription succeeded the loop runs and no shutdown has
\* been signalled.
C16_RecoveredTransientNeverStops ==
  (last.op \in SubErrOps /\ last.text \in ConnectionTexts)
     => IF last.subErr = NoError
        THEN loop = "running" /\ quitCh = <<>>
        ELSE loop = "stopped" /\ last.err

\* C16 witness: two transient errors in a row were absorbed.
C16_Witness ==
  /\ last.op \in SubErrOps /\ last.text \in ConnectionTexts
  /\ last.subErr = NoError
  /\ last.n >= 2
  /\ sideSub + headSub >= 4
  /\ loop = "running"

\* C17: a subscription error whose text does not contain "connection" makes
\* the loop return without any subscribe call, with both subscriptions and
\* the store as they were, after sending os.Interrupt on quitCh.
C17_OtherSubscriptionErrorIsFatal ==
  [][(Step /\ last'.op \in SubErrOps /\ last'.text \notin ConnectionTexts)
     => (/\ SubErrFrame
         /\ last'.calls = <<>>
         /\ sideSub' = sideSub /\ headSub' = headSub
         /\ quitCh' = Append(quitCh, "os.Interrupt")
         /\ loop' = "stopped")]_vars

\* C17 witness: the loop has stopped on the error text EOF of the head
\* subscription after it had processed an event.
C17_Witness ==
  /\ last.op = "headSubErr" /\ last.text = EOF
  /\ last.n >= 2
  /\ loop = "stopped" /\ quitCh = <<"os.Interrupt">>
  /\ sideSub = 1 /\ headSub = 1

\* The iterations that process an event of one of the three queues.
QueueOps == {"side", "head", "trailer"}

\* An iteration has just begun: the select took an event (last' names it).
Dequeued == last'.n = last.n + 1

\* A step inside an iteration, after its event was taken.
Inside == ~last.done /\ last'.n = last.n /\ runs' = runs

\* Queue a is the beginning of queue b.
IsPrefix(a, b) == Len(a) <= Len(b) /\ SubSeq(b, 1, Len(a)) = a

\* C18 as stated: the event an iteration processes is the earliest-sent of
\* all the events pending in the three queues.
C18_GlobalArrivalOrder ==
  [][(Dequeued /\ last'.op \in QueueOps)
     => (/\ arrival # <<>>
         /\ Head(arrival) = [ch |-> last'.op, hdr |-> last'.hdr])]_vars

\* C18 amended: the event an iteration processes is the earliest-sent event
\* pending in its own queue, it takes exactly that one event, and it takes
\* nothing from the other two queues then or later in the iteration (the
\* headCh case may add its header to trailerCh).
C18_PerQueueArrivalOrder ==
  [][/\ (Dequeued /\ last'.op \in QueueOps)
          => (/\ \E k \in 1..Len(arrival) :
                   /\ arrival[k] = [ch |-> last'.op, hdr |-> last'.hdr]
                   /\ \A j \in 1..(k - 1) : arrival[j].ch # last'.op
              /\ last'.op = "side" =>
                   /\ sideHeadCh = <<last'.hdr>> \o sideHeadCh'
                   /\ headCh' = headCh /\ trailerCh' = trailerCh
              /\ last'.op = "head" =>
                   /\ headCh = <<last'.hdr>> \o headCh'
                   /\ sideHeadCh' = sideHeadCh /\ trailerCh' = trailerCh
              /\ last'.op = "trailer" =>
                   /\ trailerCh = <<last'.hdr>> \o trailerCh'
                   /\ sideHeadCh' = sideHeadCh /\ headCh' = headCh)
     /\ Inside
          => (/\ IsPrefix(sideHeadCh, sideHeadCh')
              /\ IsPrefix(headCh, headCh')
              /\ trailerCh' \in {trailerCh} \cup
                                (IF last.op = "head" THEN {Append(trailerCh, last.hdr)}
                                 ELSE {}))]_vars

\* C18 witness: a head event was taken from headCh while it held two
\* different headers, and the other one is still queued.
C18_Witness ==
  /\ Ended("head") /\ last.queued = 2
  /\ Len(headCh) = 1 /\ headCh[1] # last.hdr
  /\ loop = "running"

\* C19 as stated: no store state a reader can observe, between two
\* statements of an iteration or after it, holds two rows of one height with
\* orphan=false; in particular no canonical upsert is left without its
\* demotion.
C19_UpsertAndDemotionAtomic == ~Torn(db)

\* C20 as stated, for the runs that end: once the loop has stopped, every
\* stored row with a non-empty uncleBy has its citing header stored.
C20_CitingHeaderExists ==
  loop = "stopped" =>
    \A r \in Rows : r.UncleBy # "" => RowsOf(r.UncleBy) # {}

\* The header content of a stored row: every column but orphan and uncleBy.
Content(row) ==
  [Hash |-> row.Hash, ParentHash |-> row.ParentHash, UncleHash |-> row.UncleHash,
   Number |-> row.Number, Uncle1 |-> row.Uncle1, Uncle2 |-> row.Uncle2,
   Error |-> row.Error]

\* C21: in every state each hash has at most one row, and across every step
\* of the engine every stored hash keeps exactly one row whose content
\* columns (all but orphan and uncleBy) are the ones first inserted.
C21_OneRowPerHashContentKept ==
  [][/\ \A i, j \in 1..Len(db'.headers) :
          db'.headers[i].Hash = db'.headers[j].Hash => i = j
     /\ \A i \in 1..Len(db.headers) :
          \E j \in 1..Len(db'.headers) :
            Content(db'.headers[j]) = Content(db.headers[i])]_vars

\* C21 witness: a row first written as an uncle (uncleBy set, orphan=true)
\* was upserted again as canonical: its orphan flag flipped and its uncleBy
\* stayed.
C21_Witness ==
  /\ last.n >= 2 /\ last.done /\ ~last.err
  /\ \E i \in 1..Len(db.headers) :
       /\ db.headers[i].UncleBy # ""
       /\ ~db.headers[i].Orphan
       /\ db.headers[i].Uncle1 # ""

\* The keys of the three tables.
HeaderKeys(d) == {d.headers[i].Hash : i \in 1..Len(d.headers)}

TxKeys(d) == {d.txes[i].Hash : i \in 1..Len(d.txes)}

Links(d) == Range(d.header_txes)

\* C22: no step of the engine removes a header row, a transaction row or a
\* header-transaction link: whatever is stored before a step is stored after
\* it.
C22_NothingRemoved ==
  [][/\ HeaderKeys(db) \subseteq HeaderKeys(db')
     /\ TxKeys(db) \subseteq TxKeys(db')
     /\ Links(db) \subseteq Links(db')]_vars

\* C22 witness: A11, stored as canonical by its head event, was demoted by
\* a later event at its height; its row, its transactions and its links are
\* still there.
C22_Witness ==
  /\ Stored("A11", TRUE)
  /\ \E r \in Rows : r.Number = 11 /\ ~r.Orphan
  /\ Cardinality(Preload(db, "A11")) = Len(Chain["A11"].txs)
  /\ Len(Chain["A11"].txs) = 2

\* The normalized header of the event of the current iteration.
EventHeader ==
  [Hash |-> last'.hdr, ParentHash |-> Chain[last'.hdr].parent,
   UncleHash |-> Chain[last'.hdr].uncles,
   Number |-> Chain[last'.hdr].number,
   Uncle1 |-> "", Uncle2 |-> "", Orphan |-> FALSE, UncleBy |-> "",
   Error |-> "", Txes |-> <<>>]

\* The step of the headCh case that computes the conflict flag and comes to
\* the send on trailerCh.
SendStep == last'.op = "head" /\ last'.n = last.n /\ last.path = "" /\ last'.path # ""

\* C23: the step of the headCh case that completes the send on trailerCh
\* makes the status head the normalized header of the event it dequeued, on
\* the cheap path and on the full path; the status head is that header when
\* the iteration ends, whether handleHeader failed or not; every other step
\* of a run leaves the status head as it was (at startup it is the head
\* fetched from the node).
C23_StatusFollowsHeads ==
  [][/\ IF SendStep /\ last'.path # "blocked"
        THEN statusLatestHead' = EventHeader
        ELSE runs' = runs => statusLatestHead' = statusLatestHead
     /\ (Step /\ last'.op = "head") => statusLatestHead' = EventHeader]_vars

\* C23 witness: the loop stopped on an error of handleHeader in the headCh
\* case, nothing of the head was stored, and the status head is that head.
C23_Witness ==
  /\ Ended("head") /\ last.path = "full" /\ last.err
  /\ loop = "stopped"
  /\ RowsOf(last.hdr) = {}
  /\ statusLatestHead.Hash = last.hdr

\* C24 as stated: a shutdown is started only once the loop has returned
\* after an interrupt or a fatal error, it performs the teardown in order
\* (the server stopped and waited for, then the side subscription and the
\* head subscription unsubscribed), and no run ends in a partial teardown:
\* when the shutdown point is over, the whole teardown was performed.
C24_TeardownWholeAndOrdered ==
  /\ teardown # <<>> => (loop = "stopped" /\ IsPrefix(teardown, WholeTeardown))
  /\ TeardownOver => teardown = WholeTeardown

\* C25: a request with a raw_sql parameter, whatever its statement, leaves
\* the three tables exactly as they were.
C25_RawQueryLeavesStore ==
  [][served' # served => db' = db]_vars

\* C25 witness: a DELETE was served through raw_sql while the store held
\* rows, and the rows are still there.
C25_Witness ==
  /\ served = "DELETE FROM headers"
  /\ Len(db.headers) >= 2
  /\ Len(db.header_txes) >= 2

\* The rows of hash in store d.
RowsIn(d, hash) == {d.headers[i] : i \in {k \in 1..Len(d.headers) : d.headers[k].Hash = hash}}

\* An iteration of the headCh case for a head that lists no uncles has
\* just run to its end.
HeadWithoutUncles ==
  /\ Step
  /\ last'.op = "head"
  /\ Chain[last'.hdr].uncles = <<>>

\* C26 as stated: the canonical-head event of a head that lists no uncles
\* never writes the row of that head: the store holds the same rows for its
\* hash before and after the event.
C26_HeadWithoutUnclesNeverWritten ==
  [][HeadWithoutUncles => RowsIn(db', last'.hdr) = RowsIn(last'.db0, last'.hdr)]_vars

\* C26 amended: the canonical-head event of a head that lists no uncles does
\* not write the row of that head when the conflict flag is false, and the
\* head is then held as the status head only; when the conflict flag is
\* true the head is handled like a head with uncles and, unless an error
\* stops the loop, it is stored with orphan=false.
C26_HeadWithoutUnclesWrittenOnConflict ==
  [][HeadWithoutUncles =>
       /\ statusLatestHead'.Hash = last'.hdr
       /\ IF last'.conflict
          THEN ~last'.err =>
                 \E r \in RowsIn(db', last'.hdr) : ~r.Orphan
          ELSE RowsIn(db', last'.hdr) = RowsIn(last'.db0, last'.hdr)]_vars

\* C26 witness: after an earlier event, a head without uncles and without
\* conflict was processed: it has no row and it is the status head.
C26_Witness ==
  /\ Ended("head") /\ last.path = "cheap" /\ ~last.conflict
  /\ last.n >= 2
  /\ Chain[last.hdr].uncles = <<>>
  /\ RowsOf(last.hdr) = {}
  /\ statusLatestHead.Hash = last.hdr

\* C27: the conflict flag of every canonical-head event equals the
\* disjunction of (a) same height and different hash, (b) height not
\* strictly greater than the recorded one, (c) parentHash different from the
\* recorded head's hash, all taken against the status head as it was before
\* the event.
C27_ConflictIsTheDisjunction ==
  [][SendStep =>
       last'.conflict =
         (\/ /\ Chain[last'.hdr].number = statusLatestHead.Number
             /\ last'.hdr # statusLatestHead.Hash
          \/ ~(Chain[last'.hdr].number > statusLatestHead.Number)
          \/ Chain[last'.hdr].parent # statusLatestHead.Hash)]_vars

\* C27 witness: the first head event is A21 while the recorded head is A11:
\* the height is greater and no head was recorded at 21, the flag is set by
\* the parent hash alone.
C27_Witness ==
  /\ last.op = "head" /\ last.n = 1
  /\ last.hdr = "A21"
  /\ last.conflict
  /\ last.path = "full"

\* C28 as stated, in the form a finite run can refute: every canonical-head
\* event dequeued enqueues its trailing check (its iteration gets past the
\* send on trailerCh), and while checks are pending and the engine has not
\* stopped the loop is running, so that a fair choice at its select processes
\* them.
C28_TrailingChecksEnqueuedAndProcessed ==
  /\ last.op = "head" => last.path \in {"", "cheap", "full"}
  /\ (trailerCh # <<>> /\ loop # "stopped") => loop = "running"

\* C29 as stated: whatever uncle lists of at most two uncles the node
\* returns, the nesting of handleHeader calls is bounded: it stays within
\* the number of blocks, that is, no block is handled inside its own
\* handling.
C29_RecursionBounded ==
  /\ \A b \in GraphBlocks : Len(walk.uncles[b]) <= 2
  /\ Len(walk.stack) <= Cardinality(GraphBlocks)

\* C29 amended: when every uncle has a lower number than the block that
\* cites it, the blocks of nested handleHeader calls have strictly
\* decreasing numbers, so the nesting is at most the number of the block
\* the event is about.
C29_RecursionBoundedOnValidChains ==
  WellFormedGraph(walk.uncles) =>
    /\ \A k \in 1..(Len(walk.stack) - 1) :
         GraphNumber(walk.stack[k + 1].block) < GraphNumber(walk.stack[k].block)
    /\ walk.stack # <<>> => Len(walk.stack) <= GraphNumber(walk.stack[1].block)

\* C29 witness: on a valid chain in which G3 cites two uncles and its uncle
\* G2 cites G1, the calls nested three deep and the outermost call has
\* returned.
C29_Witness ==
  /\ WellFormedGraph(walk.uncles)
  /\ Len(walk.uncles["G3"]) = 2
  /\ walk.uncles["G2"] = <<"G1">>
  /\ walk.returned
  /\ ~walk.err
  /\ walk.stack = <<>>
  /\ walk.deepest = 3

\* C30: after a canonical-head event for header H has been processed without
\* error, whichever path it took, every row the store holds for the hash of
\* H has orphan=false.
C30_AnnouncedHeadStoredCanonical ==
  (Ended("head") /\ ~last.err) =>
    \A i \in RowsOf(last.hdr) : ~db.headers[i].Orphan

\* A head event has just been processed without error whose header is the
\* header of the head event received before it in this run: the header was
\* delivered again with no other head in between.  (A first head event of
\* a run that carries the header read at startup is no duplicate.)
DuplicateHead ==
  /\ Step
  /\ last'.op = "head"
  /\ last'.prevRecv = last'.hdr
  /\ ~last'.err

\* C31 as stated: processing the second delivery of a head leaves the store
\* as it found it.
C31_DuplicateHeadLeavesStore ==
  [][DuplicateHead => db' = last'.db0]_vars

\* C31 amended: the second delivery of a head is always flagged as a
\* conflict and takes the full path, after which the head is stored with
\* orphan=false and no row, transaction or link stored before is missing;
\* when the store held no row for the head (the first delivery took the
\* cheap path and wrote nothing) the second delivery adds it.
C31_DuplicateHeadTakesFullPath ==
  [][DuplicateHead =>
       /\ last'.prevHead = last'.hdr
       /\ last'.conflict /\ last'.path = "full"
       /\ \E r \in RowsIn(db', last'.hdr) : ~r.Orphan
       /\ HeaderKeys(last'.db0) \subseteq HeaderKeys(db')
       /\ TxKeys(last'.db0) \subseteq TxKeys(db')
       /\ Links(last'.db0) \subseteq Links(db')
       /\ RowsIn(last'.db0, last'.hdr) = {} => db' # last'.db0]_vars

\* C31 witness: A21 was delivered twice to a run that started at A20; the
\* first delivery took the cheap path, the second one the full path, and the
\* store holds A21.
C31_Witness ==
  /\ last.n >= 2 /\ Ended("head") /\ last.hdr = "A21" /\ last.prevRecv = "A21"
  /\ last.prevHead = "A21"
  /\ last.path = "full" /\ ~last.err
  /\ last.db0 = EmptyDB
  /\ Stored("A21", FALSE)

\* C32: the loop is never stuck in the send of a trailing check on its own
\* trailing queue.
C32_LoopNeverBlocksOnTrailerCh ==
  loop # "blocked"

\* Well-formed chain data: a block whose parent is known is one above it.
WellFormedChain ==
  \A b \in Blocks :
    Chain[b].parent \in Blocks => Chain[b].number = Chain[Chain[b].parent].number + 1

\* C33: on well-formed chain data the conflict flag of a head event is false
\* exactly when the parentHash of the new header is the hash of the status
\* head the event found.
C33_ConflictIffParentMismatch ==
  (WellFormedChain /\ last.op = "head" /\ last.path # "") =>
    (last.conflict <=> Chain[last.hdr].parent # last.prevHead)

\* C33 witness: a head event at the height of the status head, for another
\* block, was flagged (the same-height condition holds together with the
\* parent condition), after an earlier head event that was not flagged.
C33_Witness ==
  /\ WellFormedChain
  /\ last.op = "head" /\ last.conflict
  /\ last.hdr # last.prevHead
  /\ Chain[last.hdr].number = Chain[last.prevHead].number
  /\ Chain[last.hdr].parent # last.prevHead
  /\ Chain[last.prevHead].parent = "A20"

\* C34: in every state every stored row with a non-empty uncleBy has
\* orphan=true.
C34_UnclesAreOrphans ==
  \A r \in Rows : r.UncleBy # "" => r.Orphan

\* C35: across every step, a stored row whose uncleBy is non-empty keeps a
\* non-empty uncleBy, and the uncleBy of a stored row changes only when the
\* step handled the row's hash as an uncle: the new value is the hash of a
\* block that was fetched in the step and cites the row's hash.
C35_UncleByOnlyWrittenForUncles ==
  [][\A r \in Rows : \A q \in RowsIn(db', r.Hash) :
       /\ r.UncleBy # "" => q.UncleBy # ""
       /\ q.UncleBy # r.UncleBy =>
            /\ q.UncleBy \in Blocks
            /\ r.Hash \in Range(Chain[q.UncleBy].uncles)
            /\ \E i \in 1..Len(last'.calls) :
                 last'.calls[i] = [rpc |-> "BlockByHash", arg |-> q.UncleBy]]_vars

\* C35 witness: B11, stored as an uncle cited by A12, was later handled as
\* the canonical block of its height by a side-head event: its row has
\* orphan=false and still uncleBy = A12.
C35_Witness ==
  /\ Ended("side") /\ last.canon = "B11" /\ ~last.err
  /\ \E r \in Rows : r.Hash = "B11" /\ r.UncleBy = "A12" /\ ~r.Orphan

\* C36: in every state, every stored row that records uncle hashes in
\* Uncle1/Uncle2 has a stored row for each of them.
C36_RecordedUnclesAreStored ==
  \A r \in Rows :
    /\ r.Uncle1 # "" => RowsOf(r.Uncle1) # {}
    /\ r.Uncle2 # "" => RowsOf(r.Uncle2) # {}

\* C36 witness: A12 is stored with both uncles recorded, its uncle B11 with
\* its own uncle B10 recorded, and all three uncles have rows.
C36_Witness ==
  /\ \E r \in Rows : r.Hash = "A12" /\ r.Uncle1 = "B11" /\ r.Uncle2 = "C11"
  /\ \E r \in Rows : r.Hash = "B11" /\ r.Uncle1 = "B10"
  /\ RowsOf("B10") # {} /\ RowsOf("B11") # {} /\ RowsOf("C11") # {}

\* A handleHeader call has just returned because its BlockByHash failed or a
\* transaction of its block could not be converted: the iteration ended on an
\* error right after a BlockByHash call.
FetchFailed ==
  /\ ~last.done /\ last'.done /\ last'.err /\ last'.n = last.n
  /\ Len(last'.calls) = Len(last.calls) + 1
  /\ last'.calls[Len(last'.calls)].rpc = "BlockByHash"

\* C37: a handleHeader call whose own BlockByHash fails, or whose block has a
\* transaction that cannot be converted, leaves the store as it found it,
\* and the loop returns.
C37_FailedFetchWritesNothing ==
  [][FetchFailed => (db' = db /\ loop' = "stopped")]_vars

\* C37 witness: after an earlier event had filled the store, a side-head
\* event for B21, whose transaction t3 cannot be converted, ended with an
\* error and no row for B21.
C37_Witness ==
  /\ Ended("side") /\ last.hdr = "B21" /\ last.txerr = "B21" /\ last.err
  /\ last.n >= 2
  /\ db # EmptyDB
  /\ RowsOf("B21") = {}

\* a <= b on uint64 values (limbs compared from the most significant).
RECURSIVE U64Leq(_, _)
U64Leq(a, b) ==
  IF a = <<>> THEN TRUE
  ELSE IF Head(a) # Head(b) THEN Head(a) < Head(b)
  ELSE U64Leq(Tail(a), Tail(b))

\* C38: the height a trailing check examines, header.Number - trailHeight
\* on uint64, is never greater than the height of the head that enqueued
\* the check.
C38_TrailerHeightNotAboveHead ==
  last.op = "trailer" =>
    U64Leq(U64Sub(Chain[last.hdr].number, trailHeight), ToU64(Chain[last.hdr].number))

====
